---- MODULE Spec2Model ----
(***************************************************************************)
(* State-machine models of the multithreading examples:                    *)
(*   semaphore_example.py  (SemSpec, FairSemSpec)                          *)
(*   data_sharing.py       (DataSpec)                                      *)
(*   queue_in_thread.py    (QueueSpec, FairQueueSpec)                      *)
(*   thread_pool.py        (PoolSpec)                                      *)
(*   api_requests.py       (ApiSpec)                                       *)
(* Every thread is a program counter; one action is one atomic step of a   *)
(* thread (a lock operation, a read or a write of shared state).  Each     *)
(* specification runs one program and leaves the variables of the others   *)
(* at their initial values.                                                *)
(***************************************************************************)
EXTENDS Integers, Sequences, FiniteSets, TLC

(* ---------------------------------------------------------------------- *)
(* Bounds and program constants                                            *)
(* ---------------------------------------------------------------------- *)

\* semaphore_example.py:5  MAX_CONNECTIONS = 3 (also Semaphore(3) at line 68)
MAX_CONNECTIONS == 3

\* number of user threads (user_count is 10 in the program)
MaxUsers == 4

\* number of file threads (range(1, 9) gives 8 in the program)
MaxFiles == 4

\* number of threads calling increase (two in the program)
MaxIncThreads == 3

\* number of queue workers (thread_count is 10 in the program)
MaxWorkers == 2

\* number of items put (range(1, 21) gives 20 in the program)
MaxItems == 3

\* number of pool workers (max_workers is 3 in thread_pool.py and api_requests.py)
MaxPoolWorkers == 2

\* number of tasks thread_pool.py submits to a pool (5 in the program)
MaxTasks == 3

\* number of URLs api_requests.py submits to a pool (5 in example_threaded)
MaxUrls == 2

\* number of threads running square (thread_count is 10 in the program)
MaxSquareThreads == 3

\* thread.py:5  for n in range(5)
SquareRange == 5

VARIABLES
    sem_value,      \* [SemNames -> Nat]: Semaphore._value of each semaphore
    print_lock,     \* 0 when free, else the id of the thread holding it
    spc,            \* [SemThreads -> label]: position of each thread
    active,         \* [SemThreads -> Int]: the "Active" figure a thread computed, -1 before
    smain,          \* [pc, i]: position of the main thread of semaphore_example.py
    database_value, \* data_sharing.py: the shared global
    data_lock,      \* data_sharing.py: 0 when `lock` is free, else its holder
    local_copy,     \* [IncThreads -> Int]: the local of increase
    dpc,            \* [IncThreads -> label]
    dmain,          \* [pc, i]: main thread of data_sharing.py
    q,              \* queue_in_thread.py: the items in the Queue, head first
    unfinished_tasks, \* Queue.unfinished_tasks
    qlock,          \* queue_in_thread.py: 0 when `lock` is free, else its holder
    wpc,            \* [QWorkers -> label]
    item,           \* [QWorkers -> Int]: the local of worker, 0 when none
    qmain,          \* [pc, i]: main thread of queue_in_thread.py
    got,            \* history: the items in the order q.get() removed them
    acked,          \* history: the items whose task_done has been called
    zero_seen,      \* history: unfinished_tasks fell to 0 with puts still to come
    work_queue,     \* executor: ids of the submitted tasks no worker has taken yet
    fut,            \* [1..NumTasks -> [state, result]]: the Future of each task
    ppc,            \* [PoolWorkers -> label]
    ptask,          \* [PoolWorkers -> Int]: the task a worker runs, 0 when none
    pret,           \* [PoolWorkers -> result]: the value the task body returned
    pool_shutdown,  \* executor: shutdown has been requested
    pmain,          \* [ex, pc, i]: main thread of thread_pool.py / api_requests.py
    results,        \* the outcomes main received, in the order it received them
    surfaced,       \* the futures as_completed has yielded, in order
    api_lock,       \* APIClient.lock: 0 when free, else its holder
    success_count,  \* APIClient.success_count
    fail_count,     \* APIClient.fail_count
    total_response_time, \* APIClient.total_response_time
    resp,           \* [PoolWorkers -> Int]: response["response_time"], -1 when the call raised
    tmp,            \* [PoolWorkers -> Int]: the value loaded by a `+=` before it is stored
    gpc,            \* [Callers -> label]: position inside get_statistics
    g_total,        \* [Callers -> Int]: the local `total`
    g_avg,          \* [Callers -> [num, den]]: the local `avg_time`
    stats,          \* the dict get_statistics returned to the main thread
    counted_time,   \* history: sum of the response times of the requests success_count counted
    threads,        \* thread.py: the list `threads`, as the ids of the Thread objects
    tpc,            \* [SquareThreads -> label]
    n,              \* [SquareThreads -> Int]: the loop variable of square, -1 before the loop
    tmain           \* [pc, i]: main thread of thread.py

semVars == <<sem_value, print_lock, spc, active, smain>>

dataVars == <<database_value, data_lock, local_copy, dpc, dmain>>

queueVars == <<q, unfinished_tasks, qlock, wpc, item, qmain, got, acked, zero_seen>>

poolVars == <<work_queue, fut, ppc, ptask, pret, pool_shutdown, pmain, results,
              surfaced>>

apiVars == <<api_lock, success_count, fail_count, total_response_time, resp, tmp,
             gpc, g_total, g_avg, stats, counted_time>>

threadVars == <<threads, tpc, n, tmain>>

vars == <<semVars, dataVars, queueVars, poolVars, apiVars, threadVars>>

exceptSem == <<dataVars, queueVars, poolVars, apiVars, threadVars>>
exceptData == <<semVars, queueVars, poolVars, apiVars, threadVars>>
exceptQueue == <<semVars, dataVars, poolVars, apiVars, threadVars>>
exceptPool == <<semVars, dataVars, queueVars, threadVars>>
exceptThread == <<semVars, dataVars, queueVars, poolVars, apiVars>>

(* ---------------------------------------------------------------------- *)
(* semaphore_example.py                                                    *)
(* ---------------------------------------------------------------------- *)

Users == 1..MaxUsers
Files == (MaxUsers + 1)..(MaxUsers + MaxFiles)
SemThreads == Users \cup Files

SemNames == {"semaphore", "download_semaphore"}

\* the semaphore a thread uses: the module-level one for access_database,
\* the one passed as argument for download_file
SemOf(t) == IF t \in Users THEN "semaphore" ELSE "download_semaphore"

\* labels of a thread that is inside the `with semaphore` body
BodyLabels == {"acq_msg", "acq_msg_p", "active_eval", "active_msg", "active_msg_p",
               "dl_msg", "dl_msg_p", "sleep", "fin_msg_p", "release"}

InBody(t) == spc[t] \in BodyLabels

Holders(s) == {t \in SemThreads : SemOf(t) = s /\ InBody(t)}

Waiters(s) == {t \in SemThreads : SemOf(t) = s /\ spc[t] = "waiting"}

SemInit ==
    /\ sem_value = [s \in SemNames |-> MAX_CONNECTIONS]
    /\ print_lock = 0
    /\ spc = [t \in SemThreads |-> "unstarted"]
    /\ active = [t \in SemThreads |-> -1]
    /\ smain = [pc |-> "pool_start", i |-> 1]

\* `with print_lock:` entered by thread t at label `at`
PrintAcquire(t, at, holding) ==
    /\ spc[t] = at
    /\ print_lock = 0
    /\ print_lock' = t
    /\ spc' = [spc EXCEPT ![t] = holding]
    /\ UNCHANGED <<sem_value, active, smain>>

\* print(...) done, the `with print_lock:` block is left
PrintRelease(t, holding, next) ==
    /\ spc[t] = holding
    /\ print_lock = t
    /\ print_lock' = 0
    /\ spc' = [spc EXCEPT ![t] = next]
    /\ UNCHANGED <<sem_value, active, smain>>

\* faulty print: the semaphore is requested with print_lock still held
WaitMsgEnd_KeepLock(t) ==
    /\ spc[t] = "wait_msg_p"
    /\ print_lock = t
    /\ spc' = [spc EXCEPT ![t] = "acquire"]
    /\ UNCHANGED <<sem_value, print_lock, active, smain>>

\* safe_print("... is waiting ...") / `with print_lock: print("... waiting ...")`
WaitMsgBegin(t) == PrintAcquire(t, "wait_msg", "wait_msg_p")
WaitMsgEnd(t) == PrintRelease(t, "wait_msg_p", "acquire")

\* faulty acquire: a permit is taken without looking at _value
SemAcquire_NoWait(t) ==
    /\ spc[t] = "acquire"
    /\ sem_value' = [sem_value EXCEPT ![SemOf(t)] = @ - 1]
    /\ spc' = [spc EXCEPT ![t] = IF t \in Users THEN "acq_msg" ELSE "dl_msg"]
    /\ UNCHANGED <<print_lock, active, smain>>

\* Semaphore.__enter__: under the semaphore's condition, wait while _value == 0,
\* otherwise take a permit.  A thread that finds no permit waits to be notified,
\* and a notified thread tests _value again.
SemAcquire(t) ==
    /\ spc[t] = "acquire"
    /\ IF sem_value[SemOf(t)] = 0
         THEN /\ spc' = [spc EXCEPT ![t] = "waiting"]
              /\ UNCHANGED sem_value
         ELSE /\ sem_value' = [sem_value EXCEPT ![SemOf(t)] = @ - 1]
              /\ spc' = [spc EXCEPT ![t] = IF t \in Users THEN "acq_msg" ELSE "dl_msg"]
    /\ UNCHANGED <<print_lock, active, smain>>

\* access_database line 20: safe_print("... acquired connection ...")
AcqMsgBegin(t) == t \in Users /\ PrintAcquire(t, "acq_msg", "acq_msg_p")
AcqMsgEnd(t) == PrintRelease(t, "acq_msg_p", "active_eval")

\* faulty figure: the available count itself is reported as the active count
ActiveEval_Available(t) ==
    /\ spc[t] = "active_eval"
    /\ active' = [active EXCEPT ![t] = sem_value[SemOf(t)]]
    /\ spc' = [spc EXCEPT ![t] = "active_msg"]
    /\ UNCHANGED <<sem_value, print_lock, smain>>

\* access_database line 21: the argument MAX_CONNECTIONS - semaphore._value is
\* evaluated before safe_print is entered
ActiveEval(t) ==
    /\ spc[t] = "active_eval"
    /\ active' = [active EXCEPT ![t] = MAX_CONNECTIONS - sem_value[SemOf(t)]]
    /\ spc' = [spc EXCEPT ![t] = "active_msg"]
    /\ UNCHANGED <<sem_value, print_lock, smain>>

ActiveMsgBegin(t) == PrintAcquire(t, "active_msg", "active_msg_p")

\* the message is printed and the temporary holding the figure is dropped
ActiveMsgEnd(t) ==
    /\ spc[t] = "active_msg_p"
    /\ print_lock = t
    /\ print_lock' = 0
    /\ active' = [active EXCEPT ![t] = -1]
    /\ spc' = [spc EXCEPT ![t] = "sleep"]
    /\ UNCHANGED <<sem_value, smain>>

\* download_file lines 55-56: print_lock is taken and, while it is held, the
\* figure 3 - semaphore._value is evaluated
DlMsgBegin(t) ==
    /\ t \in Files
    /\ spc[t] = "dl_msg"
    /\ print_lock = 0
    /\ print_lock' = t
    /\ active' = [active EXCEPT ![t] = 3 - sem_value[SemOf(t)]]
    /\ spc' = [spc EXCEPT ![t] = "dl_msg_p"]
    /\ UNCHANGED <<sem_value, smain>>

DlMsgEnd(t) ==
    /\ spc[t] = "dl_msg_p"
    /\ print_lock = t
    /\ print_lock' = 0
    /\ active' = [active EXCEPT ![t] = -1]
    /\ spc' = [spc EXCEPT ![t] = "sleep"]
    /\ UNCHANGED <<sem_value, smain>>

\* time.sleep(2) / time.sleep(1.5) is over (a thread at "sleep" holds its permit
\* and sleeps) and the message that the thread finished takes print_lock
FinMsgBegin(t) == PrintAcquire(t, "sleep", "fin_msg_p")
FinMsgEnd(t) == PrintRelease(t, "fin_msg_p", "release")

\* faulty release: the block is left with two permits returned for the one taken
SemRelease_Twice(t) ==
    /\ spc[t] = "release"
    /\ sem_value' = [sem_value EXCEPT ![SemOf(t)] = @ + 2]
    /\ IF Waiters(SemOf(t)) = {}
         THEN spc' = [spc EXCEPT ![t] = "done"]
         ELSE \E w \in Waiters(SemOf(t)) :
                 spc' = [spc EXCEPT ![t] = "done", ![w] = "acquire"]
    /\ UNCHANGED <<print_lock, active, smain>>

\* faulty release: the permit is returned but no waiting thread is notified
SemRelease_NoNotify(t) ==
    /\ spc[t] = "release"
    /\ sem_value' = [sem_value EXCEPT ![SemOf(t)] = @ + 1]
    /\ spc' = [spc EXCEPT ![t] = "done"]
    /\ UNCHANGED <<print_lock, active, smain>>

\* Semaphore.__exit__: _value += 1 and notify one thread waiting on the condition
SemRelease(t) ==
    /\ spc[t] = "release"
    /\ sem_value' = [sem_value EXCEPT ![SemOf(t)] = @ + 1]
    /\ IF Waiters(SemOf(t)) = {}
         THEN spc' = [spc EXCEPT ![t] = "done"]
         ELSE \E w \in Waiters(SemOf(t)) :
                 spc' = [spc EXCEPT ![t] = "done", ![w] = "acquire"]
    /\ UNCHANGED <<print_lock, active, smain>>

\* example_connection_pool lines 37-40: create and start the next user thread
StartUser ==
    /\ smain.pc = "pool_start"
    /\ smain.i <= MaxUsers
    /\ spc' = [spc EXCEPT ![smain.i] = "wait_msg"]
    /\ smain' = IF smain.i = MaxUsers
                  THEN [pc |-> "pool_join", i |-> 1]
                  ELSE [smain EXCEPT !.i = @ + 1]
    /\ UNCHANGED <<sem_value, print_lock, active>>

\* example_connection_pool lines 43-44: thread.join() of the next user thread
JoinUser ==
    /\ smain.pc = "pool_join"
    /\ spc[smain.i] = "done"
    /\ smain' = IF smain.i = MaxUsers
                  THEN [pc |-> "rate_start", i |-> MaxUsers + 1]
                  ELSE [smain EXCEPT !.i = @ + 1]
    /\ UNCHANGED <<sem_value, print_lock, spc, active>>

\* example_rate_limiting lines 72-76: create and start the next file thread
StartFile ==
    /\ smain.pc = "rate_start"
    /\ spc' = [spc EXCEPT ![smain.i] = "wait_msg"]
    /\ smain' = IF smain.i = MaxUsers + MaxFiles
                  THEN [pc |-> "rate_join", i |-> MaxUsers + 1]
                  ELSE [smain EXCEPT !.i = @ + 1]
    /\ UNCHANGED <<sem_value, print_lock, active>>

\* example_rate_limiting lines 78-79: thread.join() of the next file thread
JoinFile ==
    /\ smain.pc = "rate_join"
    /\ spc[smain.i] = "done"
    /\ smain' = IF smain.i = MaxUsers + MaxFiles
                  THEN [pc |-> "finished", i |-> 0]
                  ELSE [smain EXCEPT !.i = @ + 1]
    /\ UNCHANGED <<sem_value, print_lock, spc, active>>

SemThreadStep(t) ==
    \/ WaitMsgBegin(t)
    \/ WaitMsgEnd(t)
    \/ SemAcquire(t)
    \/ AcqMsgBegin(t)
    \/ AcqMsgEnd(t)
    \/ ActiveEval(t)
    \/ ActiveMsgBegin(t)
    \/ ActiveMsgEnd(t)
    \/ DlMsgBegin(t)
    \/ DlMsgEnd(t)
    \/ FinMsgBegin(t)
    \/ FinMsgEnd(t)
    \/ SemRelease(t)

SemMainStep == StartUser \/ JoinUser \/ StartFile \/ JoinFile

SemNext ==
    \/ \E t \in SemThreads : SemThreadStep(t) /\ UNCHANGED exceptSem
    \/ SemMainStep /\ UNCHANGED exceptSem

(* ---------------------------------------------------------------------- *)
(* data_sharing.py                                                         *)
(* ---------------------------------------------------------------------- *)

IncThreads == 1..MaxIncThreads

DataInit ==
    /\ database_value = 0
    /\ data_lock = 0
    /\ local_copy = [t \in IncThreads |-> 0]
    /\ dpc = [t \in IncThreads |-> "unstarted"]
    /\ dmain = [pc |-> "start", i |-> 1]

\* faulty lock: entered even while another thread holds it
LockAcquire_NoExclusion(t) ==
    /\ dpc[t] = "with_lock"
    /\ data_lock' = t
    /\ dpc' = [dpc EXCEPT ![t] = "read"]
    /\ UNCHANGED <<database_value, local_copy, dmain>>

\* line 19: `with lock:` entered
LockAcquire(t) ==
    /\ dpc[t] = "with_lock"
    /\ data_lock = 0
    /\ data_lock' = t
    /\ dpc' = [dpc EXCEPT ![t] = "read"]
    /\ UNCHANGED <<database_value, local_copy, dmain>>

\* line 20: local_copy = database_value
ReadValue(t) ==
    /\ dpc[t] = "read"
    /\ local_copy' = [local_copy EXCEPT ![t] = database_value]
    /\ dpc' = [dpc EXCEPT ![t] = "add"]
    /\ UNCHANGED <<database_value, data_lock, dmain>>

\* line 23: local_copy += 1
AddOne(t) ==
    /\ dpc[t] = "add"
    /\ local_copy' = [local_copy EXCEPT ![t] = @ + 1]
    /\ dpc' = [dpc EXCEPT ![t] = "sleep"]
    /\ UNCHANGED <<database_value, data_lock, dmain>>

\* line 24: time.sleep(0.1)
IncSleep(t) ==
    /\ dpc[t] = "sleep"
    /\ dpc' = [dpc EXCEPT ![t] = "write"]
    /\ UNCHANGED <<database_value, data_lock, local_copy, dmain>>

\* line 25: database_value = local_copy
WriteValue(t) ==
    /\ dpc[t] = "write"
    /\ database_value' = local_copy[t]
    /\ dpc' = [dpc EXCEPT ![t] = "unlock"]
    /\ UNCHANGED <<data_lock, local_copy, dmain>>

\* end of the `with lock:` block; increase returns and the local is gone
LockRelease(t) ==
    /\ dpc[t] = "unlock"
    /\ data_lock' = 0
    /\ local_copy' = [local_copy EXCEPT ![t] = 0]
    /\ dpc' = [dpc EXCEPT ![t] = "done"]
    /\ UNCHANGED <<database_value, dmain>>

\* lines 36-37: threadN.start()
StartInc ==
    /\ dmain.pc = "start"
    /\ dpc' = [dpc EXCEPT ![dmain.i] = "with_lock"]
    /\ dmain' = IF dmain.i = MaxIncThreads
                  THEN [pc |-> "join", i |-> 1]
                  ELSE [dmain EXCEPT !.i = @ + 1]
    /\ UNCHANGED <<database_value, data_lock, local_copy>>

\* lines 40-41: threadN.join(); after the last one, line 43 prints the end score
JoinInc ==
    /\ dmain.pc = "join"
    /\ dpc[dmain.i] = "done"
    /\ dmain' = IF dmain.i = MaxIncThreads
                  THEN [pc |-> "end", i |-> 0]
                  ELSE [dmain EXCEPT !.i = @ + 1]
    /\ UNCHANGED <<database_value, data_lock, local_copy, dpc>>

IncStep(t) ==
    \/ LockAcquire(t)
    \/ ReadValue(t)
    \/ AddOne(t)
    \/ IncSleep(t)
    \/ WriteValue(t)
    \/ LockRelease(t)

DataNext ==
    \/ \E t \in IncThreads : IncStep(t) /\ UNCHANGED exceptData
    \/ (StartInc \/ JoinInc) /\ UNCHANGED exceptData

(* ---------------------------------------------------------------------- *)
(* queue_in_thread.py                                                      *)
(* ---------------------------------------------------------------------- *)

QWorkers == 1..MaxWorkers

QueueInit ==
    /\ q = <<>>
    /\ unfinished_tasks = 0
    /\ qlock = 0
    /\ wpc = [w \in QWorkers |-> "unstarted"]
    /\ item = [w \in QWorkers |-> 0]
    /\ qmain = [pc |-> "start", i |-> 1]
    /\ got = <<>>
    /\ acked = {}
    /\ zero_seen = FALSE

GetWaiters == {w \in QWorkers : wpc[w] = "get_wait"}

\* faulty get: the newest item is removed instead of the oldest
QueueGet_Last(w) ==
    /\ wpc[w] = "get"
    /\ IF q = <<>>
         THEN /\ wpc' = [wpc EXCEPT ![w] = "get_wait"]
              /\ UNCHANGED <<q, item, got>>
         ELSE /\ item' = [item EXCEPT ![w] = q[Len(q)]]
              /\ q' = SubSeq(q, 1, Len(q) - 1)
              /\ got' = Append(got, q[Len(q)])
              /\ wpc' = [wpc EXCEPT ![w] = "lock"]
    /\ UNCHANGED <<unfinished_tasks, qlock, qmain, acked, zero_seen>>

\* line 6: q.get(): wait on not_empty while the queue is empty, else remove the head
QueueGet(w) ==
    /\ wpc[w] = "get"
    /\ IF q = <<>>
         THEN /\ wpc' = [wpc EXCEPT ![w] = "get_wait"]
              /\ UNCHANGED <<q, item, got>>
         ELSE /\ item' = [item EXCEPT ![w] = Head(q)]
              /\ q' = Tail(q)
              /\ got' = Append(got, Head(q))
              /\ wpc' = [wpc EXCEPT ![w] = "lock"]
    /\ UNCHANGED <<unfinished_tasks, qlock, qmain, acked, zero_seen>>

\* line 8: `with lock:` entered
WorkerLock(w) ==
    /\ wpc[w] = "lock"
    /\ qlock = 0
    /\ qlock' = w
    /\ wpc' = [wpc EXCEPT ![w] = "print"]
    /\ UNCHANGED <<q, unfinished_tasks, item, qmain, got, acked, zero_seen>>

\* line 9: the item is printed and the lock released
WorkerPrint(w) ==
    /\ wpc[w] = "print"
    /\ qlock = w
    /\ qlock' = 0
    /\ wpc' = [wpc EXCEPT ![w] = "task_done"]
    /\ UNCHANGED <<q, unfinished_tasks, item, qmain, got, acked, zero_seen>>

\* faulty worker: task_done is called twice for the item
TaskDone_Twice(w) ==
    /\ wpc[w] = "task_done"
    /\ IF unfinished_tasks - 2 < 0
         THEN /\ wpc' = [wpc EXCEPT ![w] = "error"]
              /\ UNCHANGED <<unfinished_tasks, qmain, acked, zero_seen, item>>
         ELSE /\ unfinished_tasks' = unfinished_tasks - 2
              /\ acked' = acked \cup {item[w]}
              /\ item' = [item EXCEPT ![w] = 0]
              /\ qmain' = IF unfinished_tasks - 2 = 0 /\ qmain.pc = "join_wait"
                            THEN [qmain EXCEPT !.pc = "join"]
                            ELSE qmain
              /\ zero_seen' = (zero_seen \/ (unfinished_tasks - 2 = 0 /\ qmain.pc = "put"))
              /\ wpc' = [wpc EXCEPT ![w] = "get"]
    /\ UNCHANGED <<q, qlock, got>>

\* faulty task_done: counts down but never notifies the joiner
TaskDone_NoNotify(w) ==
    /\ wpc[w] = "task_done"
    /\ unfinished_tasks - 1 >= 0
    /\ unfinished_tasks' = unfinished_tasks - 1
    /\ acked' = acked \cup {item[w]}
    /\ item' = [item EXCEPT ![w] = 0]
    /\ zero_seen' = (zero_seen \/ (unfinished_tasks - 1 = 0 /\ qmain.pc = "put"))
    /\ wpc' = [wpc EXCEPT ![w] = "get"]
    /\ UNCHANGED <<q, qlock, got, qmain>>

\* line 10: q.task_done(): ValueError when called too often; otherwise count
\* down and, at 0, notify_all the threads waiting in join.  Then loop to line 6.
TaskDone(w) ==
    /\ wpc[w] = "task_done"
    /\ IF unfinished_tasks - 1 < 0
         THEN /\ wpc' = [wpc EXCEPT ![w] = "error"]
              /\ UNCHANGED <<unfinished_tasks, qmain, acked, zero_seen, item>>
         ELSE /\ unfinished_tasks' = unfinished_tasks - 1
              /\ acked' = acked \cup {item[w]}
              /\ item' = [item EXCEPT ![w] = 0]
              /\ qmain' = IF unfinished_tasks - 1 = 0 /\ qmain.pc = "join_wait"
                            THEN [qmain EXCEPT !.pc = "join"]
                            ELSE qmain
              /\ zero_seen' = (zero_seen \/ (unfinished_tasks - 1 = 0 /\ qmain.pc = "put"))
              /\ wpc' = [wpc EXCEPT ![w] = "get"]
    /\ UNCHANGED <<q, qlock, got>>

\* lines 18-21: start the next daemon worker
StartWorker ==
    /\ qmain.pc = "start"
    /\ wpc' = [wpc EXCEPT ![qmain.i] = "get"]
    /\ qmain' = IF qmain.i = MaxWorkers
                  THEN [pc |-> "put", i |-> 1]
                  ELSE [qmain EXCEPT !.i = @ + 1]
    /\ UNCHANGED <<q, unfinished_tasks, qlock, item, got, acked, zero_seen>>

\* lines 23-24: q.put(i): append, count up, notify one thread waiting on not_empty
QueuePut ==
    /\ qmain.pc = "put"
    /\ q' = Append(q, qmain.i)
    /\ unfinished_tasks' = unfinished_tasks + 1
    /\ IF GetWaiters = {}
         THEN UNCHANGED wpc
         ELSE \E w \in GetWaiters : wpc' = [wpc EXCEPT ![w] = "get"]
    /\ qmain' = IF qmain.i = MaxItems
                  THEN [pc |-> "join", i |-> 0]
                  ELSE [qmain EXCEPT !.i = @ + 1]
    /\ UNCHANGED <<qlock, item, got, acked, zero_seen>>

\* faulty join: returns without looking at unfinished_tasks
QueueJoin_NoWait ==
    /\ qmain.pc = "join"
    /\ qmain' = [qmain EXCEPT !.pc = "end"]
    /\ UNCHANGED <<q, unfinished_tasks, qlock, wpc, item, got, acked, zero_seen>>

\* line 26: q.join(): wait on all_tasks_done while unfinished_tasks is not 0;
\* line 28 follows when it returns
QueueJoin ==
    /\ qmain.pc = "join"
    /\ qmain' = IF unfinished_tasks # 0
                  THEN [qmain EXCEPT !.pc = "join_wait"]
                  ELSE [qmain EXCEPT !.pc = "end"]
    /\ UNCHANGED <<q, unfinished_tasks, qlock, wpc, item, got, acked, zero_seen>>

WorkerStep(w) ==
    \/ QueueGet(w)
    \/ WorkerLock(w)
    \/ WorkerPrint(w)
    \/ TaskDone(w)

QueueMainStep == StartWorker \/ QueuePut \/ QueueJoin

QueueNext ==
    \/ \E w \in QWorkers : WorkerStep(w) /\ UNCHANGED exceptQueue
    \/ QueueMainStep /\ UNCHANGED exceptQueue

(* ---------------------------------------------------------------------- *)
(* ThreadPoolExecutor as used by thread_pool.py and api_requests.py        *)
(* ---------------------------------------------------------------------- *)

PoolWorkers == 1..MaxPoolWorkers

\* ids of the callers of get_statistics: the main thread and a concurrent reader
MainCaller == MaxPoolWorkers + 1
Observer == MaxPoolWorkers + 2
Callers == {MainCaller, Observer}

\* the response times mock_api_call may report (random.uniform(0.5, 2.0) in the
\* program), in units of half a second
Delays == {1, 2}

NoResult == [kind |-> "none", val |-> 0]

\* the number of tasks the running example submits
NumTasks(ex) == IF ex = "api" THEN MaxUrls ELSE MaxTasks

NewFutures(ex) == [i \in 1..NumTasks(ex) |-> [state |-> "none", result |-> NoResult]]

ZeroAvg == [num |-> 0, den |-> 1]

NoStats == [total_requests |-> -1, successful |-> -1, failed |-> -1,
            avg_response_time |-> ZeroAvg]

PoolInit(ex) ==
    /\ work_queue = <<>>
    /\ fut = NewFutures(ex)
    /\ ppc = [w \in PoolWorkers |-> "idle"]
    /\ ptask = [w \in PoolWorkers |-> 0]
    /\ pret = [w \in PoolWorkers |-> NoResult]
    /\ pool_shutdown = FALSE
    /\ pmain = [ex |-> ex, pc |-> "submit", i |-> 1]
    /\ results = <<>>
    /\ surfaced = <<>>

\* APIClient.__init__ (lines 22-26); nobody is inside get_statistics
ApiInit ==
    /\ api_lock = 0
    /\ success_count = 0
    /\ fail_count = 0
    /\ total_response_time = 0
    /\ resp = [w \in PoolWorkers |-> 0]
    /\ tmp = [w \in PoolWorkers |-> 0]
    /\ gpc = [c \in Callers |-> "idle"]
    /\ g_total = [c \in Callers |-> 0]
    /\ g_avg = [c \in Callers |-> ZeroAvg]
    /\ stats = NoStats
    /\ counted_time = 0

IsDone(f) == fut[f].state = "finished"

SeqToSet(sq) == {sq[k] : k \in 1..Len(sq)}

\* faulty submit: every task is started at once on a thread of its own
Submit_SpawnPerTask ==
    /\ pmain.pc = "submit"
    /\ fut' = [fut EXCEPT ![pmain.i] = [state |-> "running", result |-> NoResult]]
    /\ pmain' = IF pmain.i = NumTasks(pmain.ex)
                  THEN [pmain EXCEPT !.pc = IF pmain.ex = "map" THEN "collect"
                                                                ELSE "as_completed",
                                     !.i = 1]
                  ELSE [pmain EXCEPT !.i = @ + 1]
    /\ UNCHANGED <<work_queue, ppc, ptask, pret, pool_shutdown, results, surfaced,
                   apiVars>>

\* executor.submit / the submissions executor.map makes up front: a pending
\* Future is created and the task queued; the call does not wait for a worker
Submit ==
    /\ pmain.pc = "submit"
    /\ fut' = [fut EXCEPT ![pmain.i] = [state |-> "pending", result |-> NoResult]]
    /\ work_queue' = Append(work_queue, pmain.i)
    /\ pmain' = IF pmain.i = NumTasks(pmain.ex)
                  THEN [pmain EXCEPT !.pc = IF pmain.ex = "map" THEN "collect"
                                                                ELSE "as_completed",
                                     !.i = 1]
                  ELSE [pmain EXCEPT !.i = @ + 1]
    /\ UNCHANGED <<ppc, ptask, pret, pool_shutdown, results, surfaced, apiVars>>

\* a free worker takes the oldest queued task and starts running it
WorkerTake(w) ==
    /\ ppc[w] = "idle"
    /\ work_queue # <<>>
    /\ ptask' = [ptask EXCEPT ![w] = Head(work_queue)]
    /\ work_queue' = Tail(work_queue)
    /\ fut' = [fut EXCEPT ![Head(work_queue)].state = "running"]
    /\ ppc' = [ppc EXCEPT ![w] = IF pmain.ex = "api" THEN "fd_call" ELSE "pt_start"]
    /\ UNCHANGED <<pret, pool_shutdown, pmain, results, surfaced, apiVars>>

\* the task body returned: its Future is resolved and the worker is free again
WorkerSetResult(w) ==
    /\ ppc[w] = "returned"
    /\ fut' = [fut EXCEPT ![ptask[w]] = [state |-> "finished", result |-> pret[w]]]
    /\ ptask' = [ptask EXCEPT ![w] = 0]
    /\ pret' = [pret EXCEPT ![w] = NoResult]
    /\ ppc' = [ppc EXCEPT ![w] = "idle"]
    /\ UNCHANGED <<work_queue, pool_shutdown, pmain, results, surfaced, apiVars>>

\* a free worker leaves its loop once shutdown is requested and nothing is queued
WorkerExit(w) ==
    /\ ppc[w] = "idle"
    /\ work_queue = <<>>
    /\ pool_shutdown
    /\ ppc' = [ppc EXCEPT ![w] = "exited"]
    /\ UNCHANGED <<work_queue, fut, ptask, pret, pool_shutdown, pmain, results,
                   surfaced, apiVars>>

PoolLocal(w, at, next) ==
    /\ ppc[w] = at
    /\ ppc' = [ppc EXCEPT ![w] = next]
    /\ UNCHANGED <<work_queue, fut, ptask, pool_shutdown, pmain, results,
                   surfaced, apiVars>>

\* thread_pool.py process_task, line 6: print("Task ... starting...")
PtStart(w) == PoolLocal(w, "pt_start", "pt_sleep") /\ UNCHANGED pret

\* line 7: time.sleep(2)
PtSleep(w) == PoolLocal(w, "pt_sleep", "pt_compute") /\ UNCHANGED pret

\* lines 8-10: result = task_id * task_id, print it, return it
PtCompute(w) ==
    /\ PoolLocal(w, "pt_compute", "returned")
    /\ pret' = [pret EXCEPT ![w] = [kind |-> "value", val |-> ptask[w] * ptask[w]]]

\* faulty result iterator: the futures are walked from the last one submitted
MapCollect_Reversed ==
    /\ pmain.pc = "collect"
    /\ IsDone(MaxTasks + 1 - pmain.i)
    /\ results' = Append(results, fut[MaxTasks + 1 - pmain.i].result)
    /\ pmain' = IF pmain.i = MaxTasks
                  THEN [pmain EXCEPT !.pc = "shutdown", !.i = 0]
                  ELSE [pmain EXCEPT !.i = @ + 1]
    /\ UNCHANGED <<work_queue, fut, ppc, ptask, pret, pool_shutdown, surfaced, apiVars>>

\* executor.map's result iterator (line 23, list(results)): take the result of
\* the next future in submission order, waiting until it is done
MapCollect ==
    /\ pmain.pc = "collect"
    /\ IsDone(pmain.i)
    /\ results' = Append(results, fut[pmain.i].result)
    /\ pmain' = IF pmain.i = MaxTasks
                  THEN [pmain EXCEPT !.pc = "shutdown", !.i = 0]
                  ELSE [pmain EXCEPT !.i = @ + 1]
    /\ UNCHANGED <<work_queue, fut, ppc, ptask, pret, pool_shutdown, surfaced,
                   apiVars>>

\* faulty as_completed: a future is yielded whether or not it has finished
AsCompleted_NotDone ==
    /\ pmain.pc = "as_completed"
    /\ \E f \in DOMAIN fut :
          /\ f \notin SeqToSet(surfaced)
          /\ surfaced' = Append(surfaced, f)
          /\ results' = Append(results, fut[f].result)
    /\ pmain' = IF Len(surfaced) + 1 = NumTasks(pmain.ex)
                  THEN [pmain EXCEPT !.pc = "shutdown", !.i = 0]
                  ELSE pmain
    /\ UNCHANGED <<work_queue, fut, ppc, ptask, pret, pool_shutdown, apiVars>>

\* `for future in as_completed(futures): future.result()`: some finished
\* future not yielded yet is yielded and its outcome taken
AsCompleted ==
    /\ pmain.pc = "as_completed"
    /\ \E f \in DOMAIN fut :
          /\ IsDone(f)
          /\ f \notin SeqToSet(surfaced)
          /\ surfaced' = Append(surfaced, f)
          /\ results' = Append(results, fut[f].result)
    /\ pmain' = IF Len(surfaced) + 1 = NumTasks(pmain.ex)
                  THEN [pmain EXCEPT !.pc = "shutdown", !.i = 0]
                  ELSE pmain
    /\ UNCHANGED <<work_queue, fut, ppc, ptask, pret, pool_shutdown, apiVars>>

\* end of the `with ThreadPoolExecutor(...)` block: shutdown(wait=True) is requested
Shutdown ==
    /\ pmain.pc = "shutdown"
    /\ pool_shutdown' = TRUE
    /\ pmain' = [pmain EXCEPT !.pc = "join"]
    /\ UNCHANGED <<work_queue, fut, ppc, ptask, pret, results, surfaced,
                   apiVars>>

\* faulty shutdown: the block is left without joining the workers
ShutdownJoin_NoWait ==
    /\ pmain.pc = "join"
    /\ pmain' = [pmain EXCEPT !.pc = IF pmain.ex = "api" THEN "stats" ELSE "end"]
    /\ gpc' = IF pmain.ex = "api" THEN [gpc EXCEPT ![MainCaller] = "lock"] ELSE gpc
    /\ UNCHANGED <<work_queue, fut, ppc, ptask, pret, pool_shutdown, results, surfaced>>
    /\ UNCHANGED <<api_lock, success_count, fail_count, total_response_time,
                   resp, tmp, g_total, g_avg, stats, counted_time>>

\* shutdown joins every worker thread, then the block is left.  thread_pool.py
\* goes on to example_2_submit with a new executor; api_requests.py goes on to
\* client.get_statistics()
ShutdownJoin ==
    /\ pmain.pc = "join"
    /\ \A w \in PoolWorkers : ppc[w] = "exited"
    /\ IF pmain.ex = "map"
         THEN /\ work_queue' = <<>>
              /\ fut' = NewFutures("submit")
              /\ ppc' = [w \in PoolWorkers |-> "idle"]
              /\ pool_shutdown' = FALSE
              /\ pmain' = [ex |-> "submit", pc |-> "submit", i |-> 1]
              /\ results' = <<>>
              /\ UNCHANGED <<ptask, pret, surfaced, apiVars>>
         ELSE /\ pmain' = [pmain EXCEPT !.pc = IF pmain.ex = "api" THEN "stats" ELSE "end"]
              /\ gpc' = IF pmain.ex = "api" THEN [gpc EXCEPT ![MainCaller] = "lock"] ELSE gpc
              /\ UNCHANGED <<work_queue, fut, ppc, ptask, pret, pool_shutdown, results,
                             surfaced>>
              /\ UNCHANGED <<api_lock, success_count, fail_count, total_response_time,
                             resp, tmp, g_total, g_avg, stats, counted_time>>

(* ---------------------------------------------------------------------- *)
(* api_requests.py: APIClient                                              *)
(* ---------------------------------------------------------------------- *)

ApiLocal(w, at, next) ==
    /\ ppc[w] = at
    /\ ppc' = [ppc EXCEPT ![w] = next]
    /\ UNCHANGED <<work_queue, fut, ptask, pool_shutdown, pmain, results,
                   surfaced>>
    /\ UNCHANGED <<gpc, g_total, g_avg, stats>>

\* fetch_data lines 31-32: response = mock_api_call(url) returns after some
\* delay, or the request raises
FetchCall(w) ==
    /\ \E d \in Delays \cup {-1} :
          /\ resp' = [resp EXCEPT ![w] = d]
          /\ ApiLocal(w, "fd_call", IF d = -1 THEN "fd_exc_lock" ELSE "fd_lock")
    /\ UNCHANGED <<pret, api_lock, success_count, fail_count, total_response_time, tmp, counted_time>>

\* faulty lock: fetch_data enters the block even while the lock is held
FetchLock_NoExclusion(w) ==
    /\ api_lock' = w
    /\ ApiLocal(w, "fd_lock", "fd_inc_load")
    /\ UNCHANGED <<pret, success_count, fail_count, total_response_time, resp, tmp,
                   counted_time>>

\* line 35: `with self.lock:` entered
FetchLock(w) ==
    /\ api_lock = 0
    /\ api_lock' = w
    /\ ApiLocal(w, "fd_lock", "fd_inc_load")
    /\ UNCHANGED <<pret, success_count, fail_count, total_response_time, resp, tmp, counted_time>>

\* line 36: self.success_count += 1, the load
FetchIncLoad(w) ==
    /\ tmp' = [tmp EXCEPT ![w] = success_count]
    /\ ApiLocal(w, "fd_inc_load", "fd_inc_store")
    /\ UNCHANGED <<pret, api_lock, success_count, fail_count, total_response_time, resp, counted_time>>

\* line 36: self.success_count += 1, the store
FetchIncStore(w) ==
    /\ success_count' = tmp[w] + 1
    /\ counted_time' = counted_time + resp[w]
    /\ ApiLocal(w, "fd_inc_store", "fd_add_load")
    /\ UNCHANGED <<pret, api_lock, fail_count, total_response_time, resp, tmp>>

\* line 37: self.total_response_time += response["response_time"], the load
FetchAddLoad(w) ==
    /\ tmp' = [tmp EXCEPT ![w] = total_response_time]
    /\ ApiLocal(w, "fd_add_load", "fd_add_store")
    /\ UNCHANGED <<pret, api_lock, success_count, fail_count, total_response_time, resp, counted_time>>

\* line 37: self.total_response_time += response["response_time"], the store
FetchAddStore(w) ==
    /\ total_response_time' = tmp[w] + resp[w]
    /\ tmp' = [tmp EXCEPT ![w] = 0]
    /\ ApiLocal(w, "fd_add_store", "fd_unlock")
    /\ UNCHANGED <<pret, api_lock, success_count, fail_count, resp, counted_time>>

\* lines 38-40: the lock is released, the success printed, the response (here the
\* number of its URL) returned
FetchUnlock(w) ==
    /\ api_lock' = 0
    /\ pret' = [pret EXCEPT ![w] = [kind |-> "value", val |-> ptask[w]]]
    /\ resp' = [resp EXCEPT ![w] = 0]
    /\ ApiLocal(w, "fd_unlock", "returned")
    /\ UNCHANGED <<success_count, fail_count, total_response_time, tmp, counted_time>>

\* faulty handler: a request that raised is counted by the success branch
FetchExcLock_CountsSuccess(w) ==
    /\ api_lock = 0
    /\ api_lock' = w
    /\ ApiLocal(w, "fd_exc_lock", "fd_inc_load")
    /\ UNCHANGED <<pret, success_count, fail_count, total_response_time, resp, tmp,
                   counted_time>>

\* lines 42-43: `except Exception`, `with self.lock:` entered
FetchExcLock(w) ==
    /\ api_lock = 0
    /\ api_lock' = w
    /\ ApiLocal(w, "fd_exc_lock", "fd_fail_load")
    /\ UNCHANGED <<pret, success_count, fail_count, total_response_time, resp, tmp, counted_time>>

\* line 44: self.fail_count += 1, the load
FetchFailLoad(w) ==
    /\ tmp' = [tmp EXCEPT ![w] = fail_count]
    /\ ApiLocal(w, "fd_fail_load", "fd_fail_store")
    /\ UNCHANGED <<pret, api_lock, success_count, fail_count, total_response_time, resp, counted_time>>

\* line 44: self.fail_count += 1, the store
FetchFailStore(w) ==
    /\ fail_count' = tmp[w] + 1
    /\ tmp' = [tmp EXCEPT ![w] = 0]
    /\ ApiLocal(w, "fd_fail_store", "fd_exc_unlock")
    /\ UNCHANGED <<pret, api_lock, success_count, total_response_time, resp, counted_time>>

\* lines 45-46: the lock is released, the failure printed, None returned
FetchExcUnlock(w) ==
    /\ api_lock' = 0
    /\ pret' = [pret EXCEPT ![w] = [kind |-> "None", val |-> 0]]
    /\ resp' = [resp EXCEPT ![w] = 0]
    /\ ApiLocal(w, "fd_exc_unlock", "returned")
    /\ UNCHANGED <<success_count, fail_count, total_response_time, tmp, counted_time>>

StatsLocal(c, at, next) ==
    /\ gpc[c] = at
    /\ gpc' = [gpc EXCEPT ![c] = next]
    /\ UNCHANGED <<success_count, fail_count, total_response_time, resp, tmp, counted_time>>

\* a thread other than main calls client.get_statistics()
StatsCall(c) ==
    /\ c = Observer
    /\ StatsLocal(c, "idle", "lock")
    /\ UNCHANGED <<api_lock, g_total, g_avg, stats, poolVars>>

\* faulty lock: get_statistics reads without waiting for the lock
StatsLock_NoExclusion(c) ==
    /\ api_lock' = api_lock
    /\ StatsLocal(c, "lock", "total")
    /\ UNCHANGED <<g_total, g_avg, stats, poolVars>>

\* get_statistics line 50: `with self.lock:` entered
StatsLock(c) ==
    /\ api_lock = 0
    /\ api_lock' = c
    /\ StatsLocal(c, "lock", "total")
    /\ UNCHANGED <<g_total, g_avg, stats, poolVars>>

\* line 51: total = self.success_count + self.fail_count
StatsTotal(c) ==
    /\ g_total' = [g_total EXCEPT ![c] = success_count + fail_count]
    /\ StatsLocal(c, "total", "avg")
    /\ UNCHANGED <<api_lock, g_avg, stats, poolVars>>

\* faulty average: the quotient is formed without looking at success_count
StatsAvg_NoGuard(c) ==
    /\ g_avg' = [g_avg EXCEPT ![c] = [num |-> total_response_time,
                                       den |-> success_count]]
    /\ StatsLocal(c, "avg", "return")
    /\ UNCHANGED <<api_lock, g_total, stats, poolVars>>

\* line 52: avg_time = total_response_time / success_count if success_count > 0 else 0
\* (the quotient is kept as numerator and denominator; 0 is 0/1)
StatsAvg(c) ==
    /\ g_avg' = [g_avg EXCEPT ![c] = IF success_count > 0
                                       THEN [num |-> total_response_time,
                                             den |-> success_count]
                                       ELSE ZeroAvg]
    /\ StatsLocal(c, "avg", "return")
    /\ UNCHANGED <<api_lock, g_total, stats, poolVars>>

\* lines 53-58: the dict get_statistics builds
Snapshot(c) ==
    [total_requests |-> g_total[c],
     successful |-> success_count,
     failed |-> fail_count,
     avg_response_time |-> g_avg[c]]

\* lines 53-58: the dict is returned, the lock released; the main thread keeps
\* the dict as `stats` (line 118)
StatsReturn(c) ==
    /\ stats' = IF c = MainCaller THEN Snapshot(c) ELSE stats
    /\ api_lock' = 0
    /\ g_total' = [g_total EXCEPT ![c] = 0]
    /\ g_avg' = [g_avg EXCEPT ![c] = ZeroAvg]
    /\ StatsLocal(c, "return", "idle")
    /\ pmain' = IF c = MainCaller THEN [pmain EXCEPT !.pc = "end"] ELSE pmain
    /\ UNCHANGED <<work_queue, fut, ppc, ptask, pret, pool_shutdown, results,
                   surfaced>>

PoolWorkerStep(w) ==
    \/ WorkerTake(w)
    \/ WorkerSetResult(w)
    \/ WorkerExit(w)

ProcessTaskStep(w) ==
    \/ PtStart(w)
    \/ PtSleep(w)
    \/ PtCompute(w)

FetchDataStep(w) ==
    \/ FetchCall(w)
    \/ FetchLock(w)
    \/ FetchIncLoad(w)
    \/ FetchIncStore(w)
    \/ FetchAddLoad(w)
    \/ FetchAddStore(w)
    \/ FetchUnlock(w)
    \/ FetchExcLock(w)
    \/ FetchFailLoad(w)
    \/ FetchFailStore(w)
    \/ FetchExcUnlock(w)

GetStatisticsStep(c) ==
    \/ StatsCall(c)
    \/ StatsLock(c)
    \/ StatsTotal(c)
    \/ StatsAvg(c)
    \/ StatsReturn(c)

\* thread_pool.py: example_1_basic_map, then example_2_submit
PoolNext ==
    \/ \E w \in PoolWorkers : (PoolWorkerStep(w) \/ ProcessTaskStep(w)) /\ UNCHANGED exceptPool
    \/ (Submit \/ MapCollect \/ AsCompleted \/ Shutdown \/ ShutdownJoin) /\ UNCHANGED exceptPool

\* api_requests.py: example_threaded, with a concurrent reader of the statistics
ApiNext ==
    \/ \E w \in PoolWorkers : (PoolWorkerStep(w) \/ FetchDataStep(w)) /\ UNCHANGED exceptPool
    \/ (Submit \/ AsCompleted \/ Shutdown \/ ShutdownJoin) /\ UNCHANGED exceptPool
    \/ \E c \in Callers : GetStatisticsStep(c) /\ UNCHANGED exceptPool

(* ---------------------------------------------------------------------- *)
(* thread.py                                                               *)
(* ---------------------------------------------------------------------- *)

SquareThreads == 1..MaxSquareThreads

ThreadInit ==
    /\ threads = <<>>
    /\ tpc = [t \in SquareThreads |-> "unstarted"]
    /\ n = [t \in SquareThreads |-> -1]
    /\ tmain = [pc |-> "create", i |-> 1]

\* square lines 5-6: the for statement takes the next value of range(5), or ends
\* the function when there is none; n * n is computed and dropped
SquareIter(t) ==
    /\ tpc[t] = "for"
    /\ IF n[t] + 1 < SquareRange
         THEN /\ n' = [n EXCEPT ![t] = @ + 1]
              /\ tpc' = [tpc EXCEPT ![t] = "sleep"]
         ELSE /\ tpc' = [tpc EXCEPT ![t] = "done"]
              /\ UNCHANGED n
    /\ UNCHANGED <<threads, tmain>>

\* square line 7: time.sleep(1) is over
SquareSleep(t) ==
    /\ tpc[t] = "sleep"
    /\ tpc' = [tpc EXCEPT ![t] = "for"]
    /\ UNCHANGED <<threads, n, tmain>>

\* lines 14-16: t = Thread(target=square); threads.append(t)
CreateThread ==
    /\ tmain.pc = "create"
    /\ threads' = Append(threads, tmain.i)
    /\ tmain' = IF tmain.i = MaxSquareThreads
                  THEN [pc |-> "start", i |-> 1]
                  ELSE [tmain EXCEPT !.i = @ + 1]
    /\ UNCHANGED <<tpc, n>>

\* lines 19-20: t.start() of the next thread of the list
StartThread ==
    /\ tmain.pc = "start"
    /\ tpc' = [tpc EXCEPT ![threads[tmain.i]] = "for"]
    /\ tmain' = IF tmain.i = Len(threads)
                  THEN [pc |-> "join", i |-> 1]
                  ELSE [tmain EXCEPT !.i = @ + 1]
    /\ UNCHANGED <<threads, n>>

\* faulty join: returns without waiting for the thread to terminate
JoinThread_NoWait ==
    /\ tmain.pc = "join"
    /\ tmain' = IF tmain.i = Len(threads)
                  THEN [pc |-> "print", i |-> 0]
                  ELSE [tmain EXCEPT !.i = @ + 1]
    /\ UNCHANGED <<threads, tpc, n>>

\* lines 23-24: t.join() returns once the thread has terminated
JoinThread ==
    /\ tmain.pc = "join"
    /\ tpc[threads[tmain.i]] = "done"
    /\ tmain' = IF tmain.i = Len(threads)
                  THEN [pc |-> "print", i |-> 0]
                  ELSE [tmain EXCEPT !.i = @ + 1]
    /\ UNCHANGED <<threads, tpc, n>>

\* line 26: print("All threads completed.")
PrintCompleted ==
    /\ tmain.pc = "print"
    /\ tmain' = [tmain EXCEPT !.pc = "end"]
    /\ UNCHANGED <<threads, tpc, n>>

SquareStep(t) == SquareIter(t) \/ SquareSleep(t)

ThreadMainStep == CreateThread \/ StartThread \/ JoinThread \/ PrintCompleted

ThreadNext ==
    \/ \E t \in SquareThreads : SquareStep(t) /\ UNCHANGED exceptThread
    \/ ThreadMainStep /\ UNCHANGED exceptThread

(* ---------------------------------------------------------------------- *)
(* Specifications                                                          *)
(* ---------------------------------------------------------------------- *)

Init == SemInit /\ DataInit /\ QueueInit /\ PoolInit("map") /\ ApiInit /\ ThreadInit

ApiProgramInit ==
    SemInit /\ DataInit /\ QueueInit /\ PoolInit("api") /\ ApiInit /\ ThreadInit

SemSpec == Init /\ [][SemNext]_vars

\* the scheduler keeps running some thread as long as one can take a step (this
\* is all that is assumed; a scheduler fair to each thread satisfies it)
FairSemSpec ==
    /\ SemSpec
    /\ WF_vars(SemNext)

DataSpec == Init /\ [][DataNext]_vars

QueueSpec == Init /\ [][QueueNext]_vars

PoolSpec == Init /\ [][PoolNext]_vars

ApiSpec == ApiProgramInit /\ [][ApiNext]_vars

FairPoolSpec ==
    /\ PoolSpec
    /\ \A w \in PoolWorkers :
          WF_vars((PoolWorkerStep(w) \/ ProcessTaskStep(w)) /\ UNCHANGED exceptPool)
    /\ WF_vars((Submit \/ MapCollect \/ AsCompleted \/ Shutdown \/ ShutdownJoin)
                 /\ UNCHANGED exceptPool)

FairQueueSpec ==
    /\ QueueSpec
    /\ \A w \in QWorkers : WF_vars(WorkerStep(w) /\ UNCHANGED exceptQueue)
    /\ WF_vars(QueueMainStep /\ UNCHANGED exceptQueue)

ThreadSpec == Init /\ [][ThreadNext]_vars

\* the scheduler keeps running some thread as long as one can take a step
FairThreadSpec ==
    /\ ThreadSpec
    /\ WF_vars(ThreadNext)

(* ---------------------------------------------------------------------- *)
(* Properties                                                              *)
(* ---------------------------------------------------------------------- *)

\* C1: in every reachable state the number of threads inside the
\* `with semaphore` body of either semaphore is at most 3.
C1_AtMostCapacityInBody ==
    \A s \in SemNames : Cardinality(Holders(s)) <= MAX_CONNECTIONS

\* the gate of the rate-limiting example is full while another thread waits for it
C1_Witness ==
    /\ Cardinality(Holders("download_semaphore")) = MAX_CONNECTIONS
    /\ Waiters("download_semaphore") # {}

\* C2: once every thread that called increase is joined, database_value equals
\* the start value 0 plus the number of threads.
C2_NoLostIncrement ==
    dmain.pc = "end" => database_value = 0 + MaxIncThreads

\* all threads joined and every one of their increments is in the value
C2_Witness ==
    /\ dmain.pc = "end"
    /\ \A t \in IncThreads : dpc[t] = "done"
    /\ database_value = MaxIncThreads

\* C3: when q.join() has returned, unfinished_tasks is 0 and every item put
\* has been retrieved and acknowledged with task_done.
C3_JoinReturnsDrained ==
    qmain.pc = "end" =>
        /\ unfinished_tasks = 0
        /\ q = <<>>
        /\ SeqToSet(got) = 1..MaxItems
        /\ acked = 1..MaxItems

\* join returned after a run in which the count had fallen to 0 between two puts
C3_Witness ==
    /\ qmain.pc = "end"
    /\ zero_seen

\* C4: under fair scheduling q.join() returns ("main end" is reached) and every
\* item in the queue is eventually acknowledged.
C4_JoinReturns ==
    /\ <>(qmain.pc = "end")
    /\ \A i \in 1..MaxItems : (i \in SeqToSet(q)) ~> (i \in acked)

\* the joiner is blocked and the last acknowledgement is about to come
C4_Witness ==
    /\ qmain.pc = "join_wait"
    /\ unfinished_tasks = 1
    /\ \E w \in QWorkers : wpc[w] = "task_done"

\* C5: the results executor.map hands out are those of the tasks in submission
\* order, and when the iteration is over there are exactly MaxTasks of them.
C5_MapInSubmissionOrder ==
    pmain.ex = "map" =>
        /\ \A k \in 1..Len(results) : results[k] = [kind |-> "value", val |-> k * k]
        /\ pmain.pc \in {"shutdown", "join"} => Len(results) = MaxTasks

\* the first result is out while task 3 finished before task 2
C5_Witness ==
    /\ pmain.ex = "map"
    /\ Len(results) = 1
    /\ IsDone(3)
    /\ ~IsDone(2)

C6_Safety ==
    pmain.ex = "submit" =>
        /\ \A j, k \in 1..Len(surfaced) : surfaced[j] = surfaced[k] => j = k
        /\ \A k \in 1..Len(surfaced) : IsDone(surfaced[k])
        /\ pmain.pc \in {"shutdown", "join", "end"} => SeqToSet(surfaced) = 1..MaxTasks

\* C6: as_completed yields no future twice and none before it has finished,
\* and under fair scheduling the loop ends with every submitted future yielded.
C6_EachSurfacedOnce ==
    /\ []C6_Safety
    /\ <>(pmain.ex = "submit" /\ pmain.pc = "end")

\* all futures were yielded, in an order other than the submission order
C6_Witness ==
    /\ pmain.ex = "submit"
    /\ pmain.pc = "end"
    /\ Len(surfaced) = MaxTasks
    /\ \E k \in 1..Len(surfaced) : surfaced[k] # k

AllReturned == \A f \in DOMAIN fut : IsDone(f)

\* C7: once all fetch_data calls have returned the counters add up to the
\* number of calls, the dict the main thread gets reports that total, and in
\* every dict get_statistics returns successful + failed = total_requests.
C7_NoLostCount ==
    /\ AllReturned => success_count + fail_count = MaxUrls
    /\ stats # NoStats =>
          /\ stats.total_requests = MaxUrls
          /\ stats.successful + stats.failed = stats.total_requests
    /\ \A c \in Callers : gpc[c] = "return" =>
          Snapshot(c).successful + Snapshot(c).failed = Snapshot(c).total_requests

\* the main thread got its statistics after a run with a success and a failure
C7_Witness ==
    /\ pmain.pc = "end"
    /\ stats.successful >= 1
    /\ stats.failed >= 1

\* the count of a dict and the time its average was computed from belong to
\* the same requests
Consistent(d) ==
    IF d.successful > 0
      THEN d.avg_response_time = [num |-> counted_time, den |-> d.successful]
      ELSE d.avg_response_time = ZeroAvg

\* C8: every dict get_statistics returns pairs a success count with the time
\* accumulated by exactly the requests counted.
C8_SnapshotConsistent ==
    /\ \A c \in Callers : gpc[c] = "return" => Consistent(Snapshot(c))
    /\ stats # NoStats => Consistent(stats)

\* the concurrent reader returns a dict while a fetch_data call waits for the lock
C8_Witness ==
    /\ gpc[Observer] = "return"
    /\ success_count >= 1
    /\ \E w \in PoolWorkers : ppc[w] \in {"fd_lock", "fd_exc_lock"}

\* C9: under fair scheduling the main thread's joins all return with every
\* thread finished, each having been granted its permit and gone through the
\* `with semaphore` body.
C9_EveryWaiterGranted ==
    <>(smain.pc = "finished" /\ \A t \in SemThreads : spc[t] = "done")

\* a thread is blocked waiting for a permit while a holder is about to release
C9_Witness ==
    \E t, u \in Users : spc[t] = "waiting" /\ spc[u] = "release"

\* C10: after the `with ThreadPoolExecutor` block every submitted task has run
\* to completion and every worker has exited, and the statistics read after the
\* block count every URL.
C10_ShutdownWaits ==
    pmain.pc \in {"stats", "end"} =>
        /\ AllReturned
        /\ work_queue = <<>>
        /\ \A w \in PoolWorkers : ppc[w] = "exited"
        /\ stats # NoStats => stats.total_requests = MaxUrls

\* the block is left and get_statistics is running in the main thread
C10_Witness ==
    /\ pmain.pc = "stats"
    /\ gpc[MainCaller] = "return"
    /\ Snapshot(MainCaller).total_requests = MaxUrls

\* labels of fetch_data's `except` branch
FailLabels == {"fd_exc_lock", "fd_fail_load", "fd_fail_store", "fd_exc_unlock"}

\* the fetch_data calls whose failure has been counted: those that returned None
\* and those past the store of line 44
FailuresCounted ==
    Cardinality({f \in DOMAIN fut : IsDone(f) /\ fut[f].result.kind = "None"})
      + Cardinality({w \in PoolWorkers :
                       \/ ppc[w] = "fd_exc_unlock"
                       \/ ppc[w] = "returned" /\ pret[w].kind = "None"})

C11_Safety ==
    /\ fail_count = FailuresCounted
    /\ \A w \in PoolWorkers :
          ppc[w] \in {"idle", "exited", "returned", "fd_call", "fd_lock", "fd_exc_lock"}
             => api_lock # w
    /\ pmain.pc = "end" => AllReturned /\ success_count + fail_count = MaxUrls

\* a step of a worker whose request raised adds one to fail_count at the store of
\* line 44 and nothing elsewhere, and leaves the other two counters alone
C11_FailureStep ==
    \A w \in PoolWorkers :
        (ppc[w] \in FailLabels /\ ppc'[w] # ppc[w]) =>
            /\ success_count' = success_count
            /\ total_response_time' = total_response_time
            /\ fail_count' = fail_count + (IF ppc[w] = "fd_fail_store" THEN 1 ELSE 0)
            /\ ppc'[w] \in FailLabels \cup {"returned"}

\* C11: a fetch_data call whose request raises adds exactly one to fail_count,
\* leaves success_count and total_response_time unchanged, gives the lock back
\* and returns, so that its worker is free again; and when the program ends
\* every other task has completed and been counted.
C11_FailureIsLocal ==
    /\ []C11_Safety
    /\ [][C11_FailureStep]_vars

\* the run ended with the first request failed and its sibling completed
C11_Witness ==
    /\ pmain.pc = "end"
    /\ fut[1].result.kind = "None"
    /\ fut[2].result.kind = "value"
    /\ fail_count = 1
    /\ total_response_time = counted_time

\* C12: when the program ends, the main thread has received an exception from
\* future.result() for each request that failed.
C12_FailureRaisesInCaller ==
    pmain.pc = "end" =>
        Cardinality({k \in 1..Len(results) : results[k].kind = "exception"}) = fail_count

\* C13: the available count of either semaphore is always between 0 and the
\* capacity 3, it is the capacity less the permits held, and once the threads
\* of an example are all joined it is the capacity again.
C13_ValueWithinCapacity ==
    /\ \A s \in SemNames :
          /\ sem_value[s] \in 0..MAX_CONNECTIONS
          /\ sem_value[s] = MAX_CONNECTIONS - Cardinality(Holders(s))
    /\ smain.pc \in {"rate_start", "rate_join", "finished"} =>
          sem_value["semaphore"] = MAX_CONNECTIONS
    /\ smain.pc = "finished" => sem_value["download_semaphore"] = MAX_CONNECTIONS

\* both examples are over: every thread took and returned a permit
C13_Witness ==
    /\ smain.pc = "finished"
    /\ \A t \in SemThreads : spc[t] = "done"
    /\ \A s \in SemNames : sem_value[s] = MAX_CONNECTIONS

\* C14: the items q.get() has returned, in the order of their removal, are
\* 1, 2, ... in the order they were put: none twice, none skipped.
C14_FifoAcrossWorkers ==
    \A k \in 1..Len(got) : got[k] = k

\* every item has been removed, and two workers hold items at the same time,
\* the second worker the older one
C14_Witness ==
    /\ Len(got) = MaxItems
    /\ item[1] # 0
    /\ item[2] # 0
    /\ item[2] < item[1]

\* C15: the average get_statistics returns is total_response_time over
\* success_count when success_count > 0 and 0 otherwise, and its divisor is
\* never 0.
C15_AverageDefined ==
    /\ \A c \in Callers : gpc[c] = "return" =>
          /\ g_avg[c].den # 0
          /\ g_avg[c] = IF success_count > 0
                          THEN [num |-> total_response_time, den |-> success_count]
                          ELSE ZeroAvg
    /\ stats # NoStats =>
          /\ stats.avg_response_time.den # 0
          /\ stats.avg_response_time =
                IF stats.successful > 0
                  THEN [num |-> total_response_time, den |-> stats.successful]
                  ELSE ZeroAvg

\* every request failed: the main thread got the sentinel, and so does a reader
\* calling afterwards
C15_Witness ==
    /\ stats # NoStats
    /\ stats.failed = MaxUrls
    /\ stats.avg_response_time = ZeroAvg
    /\ gpc[Observer] = "return"
    /\ g_avg[Observer] = ZeroAvg

\* the workers that hold an item they retrieved and have not acknowledged
Holding == {w \in QWorkers : item[w] # 0}

C16_Safety ==
    /\ unfinished_tasks >= 0
    /\ \A w \in QWorkers : wpc[w] # "error"
    /\ Cardinality(acked) <= Len(got)
    /\ acked \subseteq SeqToSet(got)
    /\ unfinished_tasks = Len(q) + Cardinality(Holding)
    /\ \A w \in Holding : item[w] \notin acked /\ wpc[w] \in {"lock", "print", "task_done"}
    /\ \A w \in QWorkers : wpc[w] \in {"lock", "print", "task_done"} => w \in Holding

\* an item is acknowledged only by the worker that holds it, after the print,
\* and each acknowledgement takes exactly one from unfinished_tasks
C16_AckStep ==
    /\ \A i \in acked' \ acked :
          \E w \in QWorkers : wpc[w] = "task_done" /\ item[w] = i /\ item'[w] = 0
    /\ unfinished_tasks' < unfinished_tasks =>
          /\ unfinished_tasks' = unfinished_tasks - 1
          /\ Cardinality(acked') = Cardinality(acked) + 1

\* C16: a worker calls task_done once for each item it got, after printing it:
\* the acknowledgements never outnumber the gets, unfinished_tasks never falls
\* below 0 (task_done never raises), and unfinished_tasks counts exactly the
\* items queued or held by a worker.
C16_TaskDoneOncePerItem ==
    /\ []C16_Safety
    /\ [][C16_AckStep]_vars

\* a worker is about to acknowledge its item while others are acknowledged
\* already and others still count as unfinished
C16_Witness ==
    /\ \E w \in QWorkers : wpc[w] = "task_done" /\ item[w] # 0
    /\ acked # {}
    /\ unfinished_tasks >= 2

\* the tasks a worker is executing
Running == {f \in DOMAIN fut : fut[f].state = "running"}

\* C17: at most MaxPoolWorkers tasks are executing, each on a worker of its own;
\* submit never waits; the submitted tasks no worker has taken are exactly the
\* queued ones; and a task is executing only when all but at most
\* MaxPoolWorkers - 1 of the tasks submitted before it have finished.
C17_AtMostWorkersRunning ==
    /\ Cardinality(Running) <= MaxPoolWorkers
    /\ \A f \in Running : \E w \in PoolWorkers : ptask[w] = f
    /\ \A v, w \in PoolWorkers : ptask[v] # 0 /\ ptask[v] = ptask[w] => v = w
    /\ pmain.pc = "submit" => ENABLED Submit
    /\ \A f \in DOMAIN fut : fut[f].state = "pending" <=> f \in SeqToSet(work_queue)
    /\ \A f \in Running :
          Cardinality({g \in 1..(f - 1) : IsDone(g)}) >= f - MaxPoolWorkers

\* all tasks are submitted, every worker executes one and the surplus is queued
C17_Witness ==
    /\ pmain.ex = "submit"
    /\ pmain.pc = "as_completed"
    /\ Cardinality(Running) = MaxPoolWorkers
    /\ Len(work_queue) = MaxTasks - MaxPoolWorkers
    /\ Len(work_queue) > 0

\* C18: a thread asking or waiting for a permit never holds print_lock, the
\* holder of print_lock is printing its waiting message or holds a permit, and
\* while any started thread is unfinished some thread can take a step.
C18_NoDeadlock ==
    /\ \A t \in SemThreads : spc[t] \in {"acquire", "waiting"} => print_lock # t
    /\ print_lock # 0 => spc[print_lock] = "wait_msg_p" \/ InBody(print_lock)
    /\ (\E t \in SemThreads : spc[t] \notin {"unstarted", "done"}) =>
          \E t \in SemThreads : ENABLED SemThreadStep(t)

\* a thread is blocked on the semaphore while a permit holder is printing
C18_Witness ==
    /\ \E t \in Files : spc[t] = "waiting"
    /\ print_lock \in Files
    /\ spc[print_lock] = "fin_msg_p"

\* C19: the figure a permit holder computes from the available count is always
\* between 1 and the capacity 3.
C19_ActiveFigureInRange ==
    \A t \in SemThreads : active[t] # -1 =>
        /\ InBody(t)
        /\ active[t] \in 1..MAX_CONNECTIONS

\* one holder computed 1 and has not printed it yet, a later one computed 3
C19_Witness ==
    \E t, u \in Users : active[t] = 1 /\ active[u] = MAX_CONNECTIONS

\* C20: thread.py prints "All threads completed." only after every started
\* thread has terminated, each having run all SquareRange iterations of
\* square; and when the scheduler keeps running threads, the message is
\* eventually printed.
C20_PrintAfterAllJoined ==
    /\ [](tmain.pc = "end" =>
            \A t \in SquareThreads : tpc[t] = "done" /\ n[t] = SquareRange - 1)
    /\ <>(tmain.pc = "end")

\* the message has been printed after every thread was created, started and joined
C20_Witness ==
    /\ tmain.pc = "end"
    /\ Len(threads) = MaxSquareThreads
    /\ \A t \in SquareThreads : tpc[t] = "done"

====
